---- MODULE Spec2Model ----
(***************************************************************************)
(* Model of track_jobs.py: one run of main() fetches the recent Gmail      *)
(* messages, classifies each one, and merges the classified rows into the  *)
(* job_applications.csv file kept in a Google Drive folder.                *)
(*                                                                         *)
(* Text is modelled as a sequence of tokens.  A token is one character     *)
(* (COMMA, QUOTE, CR, LF, FF, SP) or an atomic piece of ordinary text that *)
(* holds none of these characters ("hr", "Interview Received", ...).  A    *)
(* field is a sequence of tokens, a row a sequence of fields, the CSV file *)
(* a sequence of tokens.                                                   *)
(***************************************************************************)
EXTENDS Naturals, Sequences, FiniteSets

\* ------------------------------------------------------------------ bounds
MaxRuns == 2

MaxBatch == 2

\* ------------------------------------------------------------- characters
COMMA == ","

QUOTE == "QUOTE"

CR == "CR"

LF == "LF"

\* a line boundary of str.splitlines that is not part of csv's lineterminator
\* (\x0b, \x0c, \x1c, \x1d, \x1e, \x85, \u2028, \u2029)
FF == "FF"

SP == " "

\* pseudo character the csv reader processes at the end of every line
EOL == "EOL"

\* str.splitlines line boundaries
LineBreaks == {CR, LF, FF}

\* characters removed by str.strip
Whitespace == {SP, CR, LF, FF}

\* ------------------------------------------------------------- csv.writer
\* csv.writer (excel dialect, QUOTE_MINIMAL): a field is quoted when it holds
\* the delimiter, the quotechar or a character of the lineterminator "\r\n"
NeedsQuote(f) == \E i \in 1..Len(f) : f[i] \in {COMMA, QUOTE, CR, LF}

RECURSIVE DoubleQuotes(_)
DoubleQuotes(f) ==
    IF f = <<>> THEN <<>>
    ELSE (IF Head(f) = QUOTE THEN <<QUOTE, QUOTE>> ELSE <<Head(f)>>)
         \o DoubleQuotes(Tail(f))

WriteField(f) ==
    IF NeedsQuote(f) THEN <<QUOTE>> \o DoubleQuotes(f) \o <<QUOTE>> ELSE f

RECURSIVE JoinFields(_)
JoinFields(row) ==
    IF row = <<>> THEN <<>>
    ELSE IF Len(row) = 1 THEN WriteField(row[1])
    ELSE WriteField(row[1]) \o <<COMMA>> \o JoinFields(Tail(row))

\* writer.writerow: the joined fields and the lineterminator
WriteRow(row) == JoinFields(row) \o <<CR, LF>>

column_headers == << <<"Date">>, <<"Category">>, <<"Sender">>, <<"Subject">>, <<"Snippet">> >>

RECURSIVE WriteRows(_)
WriteRows(rows) ==
    IF rows = <<>> THEN <<>> ELSE WriteRow(Head(rows)) \o WriteRows(Tail(rows))

\* the file update_csv writes: the header row, then every entry
WriteCsv(rows) == WriteRow(column_headers) \o WriteRows(rows)

\* ------------------------------------------------------------- splitlines
RECURSIVE SplitFrom(_, _, _, _)
SplitFrom(s, i, cur, acc) ==
    IF i > Len(s) THEN (IF cur = <<>> THEN acc ELSE Append(acc, cur))
    ELSE IF s[i] = CR /\ i < Len(s) /\ s[i + 1] = LF
         THEN SplitFrom(s, i + 2, <<>>, Append(acc, cur))
    ELSE IF s[i] \in LineBreaks
         THEN SplitFrom(s, i + 1, <<>>, Append(acc, cur))
    ELSE SplitFrom(s, i + 1, Append(cur, s[i]), acc)

\* str.splitlines(): the lines without their line boundaries
SplitLines(s) == SplitFrom(s, 1, <<>>, <<>>)

\* ------------------------------------------------------------- csv.reader
RECURSIVE FeedLines(_)
\* the characters the reader processes: each line followed by EOL
FeedLines(lines) ==
    IF lines = <<>> THEN <<>>
    ELSE Head(lines) \o <<EOL>> \o FeedLines(Tail(lines))

RECURSIVE ReadRecords(_, _, _, _, _, _)
\* the reader's state machine (excel dialect, not strict) over the lines
ReadRecords(s, i, st, fld, row, rows) ==
    IF i > Len(s)
    THEN (IF st = "IN_QUOTED_FIELD" \/ (st # "START_RECORD" /\ fld # <<>>)
          THEN Append(rows, Append(row, fld)) ELSE rows)
    ELSE LET c == s[i] IN
      CASE st = "START_RECORD" /\ c = EOL ->
             ReadRecords(s, i + 1, "START_RECORD", <<>>, <<>>, Append(rows, <<>>))
        [] st \in {"START_RECORD", "START_FIELD"} /\ c # EOL ->
             IF c = QUOTE THEN ReadRecords(s, i + 1, "IN_QUOTED_FIELD", fld, row, rows)
             ELSE IF c = COMMA
             THEN ReadRecords(s, i + 1, "START_FIELD", <<>>, Append(row, fld), rows)
             ELSE ReadRecords(s, i + 1, "IN_FIELD", Append(fld, c), row, rows)
        [] st \in {"START_FIELD", "IN_FIELD", "QUOTE_IN_QUOTED_FIELD"} /\ c = EOL ->
             ReadRecords(s, i + 1, "START_RECORD", <<>>, <<>>,
                         Append(rows, Append(row, fld)))
        [] st = "IN_FIELD" /\ c # EOL ->
             IF c = COMMA
             THEN ReadRecords(s, i + 1, "START_FIELD", <<>>, Append(row, fld), rows)
             ELSE ReadRecords(s, i + 1, "IN_FIELD", Append(fld, c), row, rows)
        [] st = "IN_QUOTED_FIELD" ->
             IF c = EOL THEN ReadRecords(s, i + 1, "IN_QUOTED_FIELD", fld, row, rows)
             ELSE IF c = QUOTE
             THEN ReadRecords(s, i + 1, "QUOTE_IN_QUOTED_FIELD", fld, row, rows)
             ELSE ReadRecords(s, i + 1, "IN_QUOTED_FIELD", Append(fld, c), row, rows)
        [] st = "QUOTE_IN_QUOTED_FIELD" /\ c # EOL ->
             IF c = QUOTE
             THEN ReadRecords(s, i + 1, "IN_QUOTED_FIELD", Append(fld, c), row, rows)
             ELSE IF c = COMMA
             THEN ReadRecords(s, i + 1, "START_FIELD", <<>>, Append(row, fld), rows)
             ELSE ReadRecords(s, i + 1, "IN_FIELD", Append(fld, c), row, rows)

\* csv.reader(text.splitlines()): every record of the file, the header included
CsvReader(text) == ReadRecords(FeedLines(SplitLines(text)), 1, "START_RECORD", <<>>, <<>>, <<>>)

\* update_csv's load: the header record is discarded, every later record with
\* at least 5 columns is kept
LoadRows(text) ==
    LET recs == CsvReader(text)
    IN  {recs[k] : k \in {j \in 2..Len(recs) : Len(recs[j]) >= 5}}

\* ------------------------------------------------------------- classifier
valid_categories ==
    {"Application Submitted", "Interview Received", "Rejection Notice",
     "Follow-up Needed", "Irrelevant"}

RECURSIVE LStrip(_)
LStrip(t) == IF t # <<>> /\ Head(t) \in Whitespace THEN LStrip(Tail(t)) ELSE t

RECURSIVE RStrip(_)
RStrip(t) ==
    IF t # <<>> /\ t[Len(t)] \in Whitespace THEN RStrip(SubSeq(t, 1, Len(t) - 1)) ELSE t

\* str.strip()
Strip(t) == RStrip(LStrip(t))

\* str.lower(), on the tokens of the model that have an upper-case letter
Lower(tok) == IF tok = "GitHub.com" THEN "github.com" ELSE tok

\* the checks of classify_email that return "Irrelevant" without calling OpenAI
PreFiltered(sender) ==
    \/ sender = <<>>
    \/ Strip(sender) = <<>>
    \/ \E i \in 1..Len(sender) : Lower(sender[i]) = "github.com"

\* the category classify_email returns for OpenAI's answer
Classification(response) ==
    LET classification == Strip(response)
    IN  IF Len(classification) = 1 /\ classification[1] \in valid_categories
        THEN classification[1] ELSE "Irrelevant"

SnippetLimit == 100

\* content[:100]
Truncate(content) ==
    IF Len(content) <= SnippetLimit THEN content ELSE SubSeq(content, 1, SnippetLimit)

\* new_entry_key of update_csv for a candidate and its category
EntryKey(cand, category) ==
    <<cand[1], <<category>>, cand[2], cand[3], Truncate(cand[4])>>

\* the acceptance rule with the bootstrap test negated
Accepts_inverted(has_data, category, entry, existing) ==
    \/ has_data
    \/ (category # "Irrelevant" /\ entry \notin existing)

\* the acceptance rule without the test of the category
Accepts_unfiltered(has_data, category, entry, existing) ==
    \/ ~has_data
    \/ entry \notin existing

\* the acceptance rule without the bootstrap branch
Accepts_no_bootstrap(has_data, category, entry, existing) ==
    category # "Irrelevant" /\ entry \notin existing

\* whether update_csv appends the entry of a candidate
Accepts(has_data, category, entry, existing) ==
    \/ ~has_data
    \/ (category # "Irrelevant" /\ entry \notin existing)

\* update_csv without its early return
ReturnsEarly_never(entries) == FALSE

\* "if not new_entries: return"
ReturnsEarly(entries) == entries = <<>>

\* a write of the new entries alone
MergedRows_new_only(existing, entries) == {entries[i] : i \in 1..Len(entries)}

\* existing_data.union(new_entries), the rows update_csv writes
MergedRows(existing, entries) == existing \cup {entries[i] : i \in 1..Len(entries)}

\* ---------------------------------------------------------------- fetcher
\* the value of a header of a Gmail message, or the default of the fetcher
HeaderValue(headers, name, default) ==
    IF name \in DOMAIN headers THEN headers[name] ELSE default

\* the tuple fetch_recent_emails appends for a message
EmailTuple(msg) ==
    << HeaderValue(msg.headers, "Date", <<"Unknown Date">>),
       HeaderValue(msg.headers, "From", <<"Unknown Sender">>),
       HeaderValue(msg.headers, "Subject", <<"No Subject">>),
       msg.snippet >>

\* The messages Gmail may hold, in the order messages.list returns them: two
\* with the same date, sender and snippet, one with a blank sender and no
\* Subject header, one sent by GitHub with no Date header and a form feed in
\* its snippet.
Inbox ==
    << [headers |-> [Date |-> <<"d1">>, From |-> <<"hr">>, Subject |-> <<"Interview">>],
        snippet |-> <<"x">>],
       [headers |-> [Date |-> <<"d1">>, From |-> <<"hr">>,
                     Subject |-> <<"Re", COMMA, QUOTE>>],
        snippet |-> <<"x">>],
       [headers |-> [Date |-> <<"d2">>, From |-> <<SP>>],
        snippet |-> <<"y">>],
       [headers |-> [From |-> <<"noreply@", "GitHub.com">>, Subject |-> <<"PR">>],
        snippet |-> <<"x", FF, "y">>] >>

\* the answers OpenAI may give
Responses ==
    { <<"Rejection Notice", LF>>, <<"Irrelevant">>, <<"Not", SP, "sure">> }

\* the strictly increasing index sequences of length at most MaxBatch
Selections ==
    UNION { {sel \in [1..n -> 1..Len(Inbox)] :
                \A i \in 1..n : \A j \in 1..n : i < j => sel[i] < sel[j]}
            : n \in 0..MaxBatch }

\* ---------------------------------------------------------- configuration
Keys ==
    {"GMAIL_REFRESH_TOKEN", "GOOGLE_DRIVE_REFRESH_TOKEN", "OPENAI_API_KEY",
     "GOOGLE_DRIVE_FOLDER_ID"}

\* ------------------------------------------------------------ Drive file
NoFile == [has |-> FALSE, text |-> <<>>]

HeaderOnly == [has |-> TRUE, text |-> WriteCsv(<<>>)]

\* a table an earlier run wrote: the first message, an interview invitation
Seeded ==
    [has |-> TRUE,
     text |-> WriteCsv(<< EntryKey(EmailTuple(Inbox[1]), "Interview Received") >>)]

\* the well-formed rows update_csv loads from the file of the folder
Table(f) == IF f.has THEN LoadRows(f.text) ELSE {}

RECURSIVE Enumerate(_)
\* one enumeration of a finite set
Enumerate(S) ==
    IF S = {} THEN <<>>
    ELSE LET x == CHOOSE y \in S : TRUE IN <<x>> \o Enumerate(S \ {x})

\* The orders in which iterating the set may yield its rows.  Python fixes no
\* order; the model lets the iteration run through one enumeration of the set
\* forwards or backwards.
Orders(S) ==
    LET e == Enumerate(S)
        n == Len(e)
    IN  {e, [k \in 1..n |-> e[n + 1 - k]]}

Range(q) == {q[i] : i \in 1..Len(q)}

\* ------------------------------------------------------------------ state
VARIABLES
    env,            \* the configuration keys that are set in the environment
    drive,          \* job_applications.csv in the Drive folder: [has, text]
    pc,             \* the position of main() in the current run, "idle" between runs
    runs,           \* the number of runs started
    emails,         \* main: the list fetch_recent_emails returned
    idx,            \* update_csv: the position of the candidate loop
    file_id,        \* update_csv: whether files.list found the file
    existing_data,  \* update_csv: the set of rows
    csv_has_data,   \* update_csv: the flag of the same name
    new_entries,    \* update_csv: the list of accepted entries
    local_csv,      \* the text of the local file update_csv writes and uploads
    outcome,        \* how the last run ended
    net_calls,      \* the providers the current run has sent a request to
    failed_calls,   \* the providers whose call raised in the current run
    drive_writes,   \* the files.update / files.create calls the current run completed
    file0,          \* the Drive file when the current run started
    labels,         \* the category classify_email returned for each candidate so far
    written,        \* the set of rows the current run handed to csv.writer
    rerun,          \* whether every run repeats the first: Gmail lists the same
                    \* messages and OpenAI answers a prompt as it did before
    answered,       \* rerun: the answer OpenAI gave to each prompt so far
    prev            \* rerun: what the run before the current one did

vars ==
    <<env, drive, pc, runs, emails, idx, file_id, existing_data, csv_has_data,
      new_entries, local_csv, outcome, net_calls, failed_calls, drive_writes,
      file0, labels, written, rerun, answered, prev>>

\* the environment of the repeated runs
replay == <<rerun, answered, prev>>

locals == <<emails, idx, file_id, existing_data, csv_has_data, new_entries, local_csv>>

InitRun ==
    /\ env \in SUBSET Keys
    /\ drive \in {NoFile, HeaderOnly, Seeded}
    /\ pc = "idle"
    /\ runs = 0
    /\ emails = <<>>
    /\ idx = 1
    /\ file_id = FALSE
    /\ existing_data = {}
    /\ csv_has_data = FALSE
    /\ new_entries = <<>>
    /\ local_csv = <<>>
    /\ outcome = "none"
    /\ net_calls = {}
    /\ failed_calls = {}
    /\ drive_writes = 0
    /\ file0 = drive
    /\ labels = <<>>
    /\ written = {}
    /\ answered = <<>>
    /\ prev = [emails |-> <<>>, complete |-> FALSE, has_data |-> FALSE, writes |-> 0]

\* runs over a mailbox that changes and with OpenAI free to answer anything
Init == InitRun /\ rerun = FALSE

\* runs that repeat the first run
InitRerun == InitRun /\ rerun = TRUE

\* an exception that leaves main(): the run is over and failed
Raise(kind) ==
    /\ pc' = "idle"
    /\ outcome' = kind

\* the scheduler invokes main()
StartRun ==
    /\ pc = "idle"
    /\ runs < MaxRuns
    /\ runs' = runs + 1
    /\ pc' = "get_gmail_service"
    /\ emails' = <<>>
    /\ idx' = 1
    /\ file_id' = FALSE
    /\ existing_data' = {}
    /\ csv_has_data' = FALSE
    /\ new_entries' = <<>>
    /\ local_csv' = <<>>
    /\ outcome' = "running"
    /\ net_calls' = {}
    /\ failed_calls' = {}
    /\ drive_writes' = 0
    /\ file0' = drive
    /\ labels' = <<>>
    /\ written' = {}
    /\ prev' = IF rerun
               THEN [emails |-> emails,
                     complete |-> (outcome = "success" /\ idx > Len(emails)),
                     has_data |-> csv_has_data, writes |-> drive_writes]
               ELSE prev
    /\ UNCHANGED <<env, drive, rerun, answered>>

\* get_gmail_service
GetGmailService ==
    /\ pc = "get_gmail_service"
    /\ IF "GMAIL_REFRESH_TOKEN" \in env
       THEN pc' = "fetch" /\ UNCHANGED outcome
       ELSE Raise("config_error")
    /\ UNCHANGED <<env, drive, runs, locals, net_calls, failed_calls, drive_writes,
                   file0, labels, written, replay>>

\* fetch_recent_emails: messages.list and every messages.get succeed; main then
\* calls update_csv when the list is not empty
FetchOk ==
    /\ pc = "fetch"
    /\ \E sel \in Selections :
          /\ emails' = [i \in 1..Len(sel) |-> EmailTuple(Inbox[sel[i]])]
          /\ (rerun /\ runs > 1) => emails' = prev.emails
          /\ pc' = IF Len(sel) > 0 THEN "get_drive_service" ELSE "report"
    /\ net_calls' = net_calls \cup {"gmail"}
    /\ UNCHANGED <<env, drive, runs, idx, file_id, existing_data, csv_has_data,
                   new_entries, local_csv, outcome, failed_calls, drive_writes,
                   file0, labels, written, replay>>

\* fetch_recent_emails: messages.list or a messages.get raises; the except
\* clause prints the error and returns []
FetchRaises ==
    /\ pc = "fetch"
    /\ emails' = <<>>
    /\ pc' = "report"
    /\ net_calls' = net_calls \cup {"gmail"}
    /\ failed_calls' = failed_calls \cup {"gmail"}
    /\ UNCHANGED <<env, drive, runs, idx, file_id, existing_data, csv_has_data,
                   new_entries, local_csv, outcome, drive_writes, file0, labels,
                   written, replay>>

\* update_csv: get_drive_service
GetDriveService ==
    /\ pc = "get_drive_service"
    /\ IF "GOOGLE_DRIVE_REFRESH_TOKEN" \in env
       THEN pc' = "list" /\ UNCHANGED outcome
       ELSE Raise("config_error")
    /\ UNCHANGED <<env, drive, runs, locals, net_calls, failed_calls, drive_writes,
                   file0, labels, written, replay>>

\* update_csv: files.list answers; a file that exists is downloaded next
ListOk ==
    /\ pc = "list"
    /\ "GOOGLE_DRIVE_FOLDER_ID" \in env
    /\ file_id' = drive.has
    /\ pc' = IF drive.has THEN "download" ELSE "classify"
    /\ net_calls' = net_calls \cup {"drive"}
    /\ UNCHANGED <<env, drive, runs, emails, idx, existing_data, csv_has_data,
                   new_entries, local_csv, outcome, failed_calls, drive_writes,
                   file0, labels, written, replay>>

\* update_csv: files.list raises (always for the query "'None' in parents" that
\* an unset GOOGLE_DRIVE_FOLDER_ID gives)
ListRaises ==
    /\ pc = "list"
    /\ net_calls' = net_calls \cup {"drive"}
    /\ failed_calls' = failed_calls \cup {"drive"}
    /\ Raise("provider_error")
    /\ UNCHANGED <<env, drive, runs, locals, drive_writes, file0, labels, written, replay>>

\* update_csv: the download completes and the rows are read
DownloadOk ==
    /\ pc = "download"
    /\ existing_data' = LoadRows(drive.text)
    /\ csv_has_data' = (LoadRows(drive.text) # {})
    /\ pc' = "classify"
    /\ net_calls' = net_calls \cup {"drive"}
    /\ UNCHANGED <<env, drive, runs, emails, idx, file_id, new_entries, local_csv,
                   outcome, failed_calls, drive_writes, file0, labels,
                   written, replay>>

\* update_csv: a chunk of the download raises
DownloadRaises ==
    /\ pc = "download"
    /\ net_calls' = net_calls \cup {"drive"}
    /\ failed_calls' = failed_calls \cup {"drive"}
    /\ Raise("provider_error")
    /\ UNCHANGED <<env, drive, runs, locals, drive_writes, file0, labels,
                   written, replay>>

\* the body of the candidate loop after classify_email returned category
Process(category) ==
    LET entry == EntryKey(emails[idx], category)
    IN  /\ IF Accepts(csv_has_data, category, entry, existing_data)
           THEN /\ new_entries' = Append(new_entries, entry)
                /\ existing_data' = existing_data \cup {entry}
           ELSE UNCHANGED <<new_entries, existing_data>>
        /\ labels' = Append(labels, category)
        /\ idx' = idx + 1
        /\ UNCHANGED <<env, drive, pc, runs, emails, file_id, csv_has_data, local_csv,
                       outcome, failed_calls, drive_writes, file0, written, rerun, prev>>

\* one candidate whose sender makes classify_email return without calling OpenAI
ClassifyLocal ==
    /\ pc = "classify"
    /\ idx <= Len(emails)
    /\ PreFiltered(emails[idx][2])
    /\ Process("Irrelevant")
    /\ UNCHANGED <<net_calls, answered>>

\* one candidate classified by OpenAI
ClassifyRemote ==
    /\ pc = "classify"
    /\ idx <= Len(emails)
    /\ ~PreFiltered(emails[idx][2])
    /\ "OPENAI_API_KEY" \in env
    /\ net_calls' = net_calls \cup {"openai"}
    /\ LET prompt == <<emails[idx][3], emails[idx][4]>>
           asked == {k \in 1..Len(answered) : answered[k][1] = prompt}
       IN  \E response \in Responses :
              /\ \A k \in asked : response = answered[k][2]
              /\ answered' = IF rerun /\ asked = {}
                              THEN Append(answered, <<prompt, response>>)
                              ELSE answered
              /\ Process(Classification(response))

\* the OpenAI call of one candidate raises; without an API key the client
\* raises before it sends anything
ClassifyRaises ==
    /\ pc = "classify"
    /\ idx <= Len(emails)
    /\ ~PreFiltered(emails[idx][2])
    /\ net_calls' = IF "OPENAI_API_KEY" \in env THEN net_calls \cup {"openai"}
                    ELSE net_calls
    /\ failed_calls' = failed_calls \cup {"openai"}
    /\ Raise("provider_error")
    /\ UNCHANGED <<env, drive, runs, locals, drive_writes, file0, labels, written, replay>>

\* update_csv after the loop: nothing was accepted, return to main
NoNewEntries ==
    /\ pc = "classify"
    /\ idx > Len(emails)
    /\ ReturnsEarly(new_entries)
    /\ pc' = "report"
    /\ UNCHANGED <<env, drive, runs, locals, outcome, net_calls, failed_calls,
                   drive_writes, file0, labels, written, replay>>

\* update_csv after the loop: the header and every row of
\* existing_data.union(new_entries), in the set's iteration order, are written
\* to the local file
WriteLocalCsv ==
    /\ pc = "classify"
    /\ idx > Len(emails)
    /\ ~ReturnsEarly(new_entries)
    /\ written' = MergedRows(existing_data, new_entries)
    /\ \E order \in Orders(MergedRows(existing_data, new_entries)) :
          local_csv' = WriteCsv(order)
    /\ pc' = "upload"
    /\ UNCHANGED <<env, drive, runs, emails, idx, file_id, existing_data,
                   csv_has_data, new_entries, outcome, net_calls, failed_calls,
                   drive_writes, file0, labels, replay>>

\* update_csv: files.update (file_id set) or files.create replaces the file
UploadOk ==
    /\ pc = "upload"
    /\ drive' = [has |-> TRUE, text |-> local_csv]
    /\ drive_writes' = drive_writes + 1
    /\ net_calls' = net_calls \cup {"drive"}
    /\ pc' = "report"
    /\ UNCHANGED <<env, runs, locals, outcome, failed_calls, file0, labels, written,
                   replay>>

\* an upload that raises after Drive stored the first half of the file
UploadRaises_partial ==
    /\ pc = "upload"
    /\ drive' = [has |-> TRUE, text |-> SubSeq(local_csv, 1, Len(local_csv) \div 2)]
    /\ net_calls' = net_calls \cup {"drive"}
    /\ failed_calls' = failed_calls \cup {"drive"}
    /\ Raise("provider_error")
    /\ UNCHANGED <<env, runs, locals, drive_writes, file0, labels, written, replay>>

\* update_csv: the upload raises; Drive keeps the file it had
UploadRaises ==
    /\ pc = "upload"
    /\ net_calls' = net_calls \cup {"drive"}
    /\ failed_calls' = failed_calls \cup {"drive"}
    /\ Raise("provider_error")
    /\ UNCHANGED <<env, drive, runs, locals, drive_writes, file0, labels, written, replay>>

\* main: print("Job application tracking updated in Google Drive.")
Report ==
    /\ pc = "report"
    /\ pc' = "idle"
    /\ outcome' = "success"
    /\ UNCHANGED <<env, drive, runs, locals, net_calls, failed_calls, drive_writes,
                   file0, labels, written, replay>>

Next ==
    \/ StartRun
    \/ GetGmailService
    \/ FetchOk
    \/ FetchRaises
    \/ GetDriveService
    \/ ListOk
    \/ ListRaises
    \/ DownloadOk
    \/ DownloadRaises
    \/ ClassifyLocal
    \/ ClassifyRemote
    \/ ClassifyRaises
    \/ NoNewEntries
    \/ WriteLocalCsv
    \/ UploadOk
    \/ UploadRaises
    \/ Report

Spec == Init /\ [][Next]_vars

SpecRerun == InitRerun /\ [][Next]_vars

\* ----------------------------------------------------------------- claims
\* the identity key of a row: (received_at, sender, snippet)
Identity(r) == <<r[1], r[3], r[5]>>

IrrelevantRows(T) == {r \in T : r[2] = <<"Irrelevant">>}

\* the run is over
RunEnded == pc = "idle" /\ runs > 0

\* the entry of every candidate classified so far
Entries == [i \in 1..Len(labels) |-> EntryKey(emails[i], labels[i])]

\* C1: the table of the Drive file never holds two rows with the same
\* (received_at, sender, snippet) triple.
C1_IdentityUnique ==
    \A r1 \in Table(drive) : \A r2 \in Table(drive) :
        Identity(r1) = Identity(r2) => r1 = r2

\* C2: every well-formed row the Drive file held when the run started is in
\* the Drive file at every later point of the run, written or not.
C2_ExistingRowsKept == drive = file0 \/ Table(file0) \subseteq Table(drive)

C2_Witness ==
    /\ RunEnded
    /\ outcome = "success"
    /\ drive_writes = 1
    /\ Table(file0) # {}
    /\ Table(drive) # Table(file0)

\* C3: a run that repeats the complete run before it (the same candidates, the
\* same answer to every prompt) leaves the table of the Drive file as it found
\* it, whether the run before had loaded data rows or not.
C3_RerunChangesNothing ==
    (RunEnded /\ rerun /\ outcome = "success" /\ prev.complete /\ emails = prev.emails)
        => Table(drive) = Table(file0)

C3_Witness ==
    /\ RunEnded
    /\ rerun
    /\ outcome = "success"
    /\ prev.complete
    /\ prev.has_data
    /\ prev.writes = 1
    /\ emails = prev.emails
    /\ Len(labels) = Len(emails)
    /\ \E i \in 1..Len(labels) : labels[i] # "Irrelevant"

\* C4: a run in which a provider call failed never ends with main's success
\* report.
C4_FailureNotReportedAsSuccess ==
    (RunEnded /\ outcome = "success") => failed_calls = {}

\* C5: a run in which a step failed leaves the Drive file as it was, and the
\* Drive file is only ever replaced by the rows loaded plus the entries
\* accepted in a run that classified every candidate.
C5_FailedRunLeavesTable ==
    /\ (failed_calls # {} \/ outcome \in {"config_error", "provider_error"})
          => (drive = file0 /\ drive_writes = 0)
    /\ drive # file0
          => /\ Len(labels) = Len(emails)
             /\ written = Table(file0) \cup Range(new_entries)
             /\ \E order \in Orders(written) : drive.text = WriteCsv(order)

C5_Witness ==
    /\ RunEnded
    /\ outcome = "provider_error"
    /\ local_csv # <<>>
    /\ new_entries # <<>>

\* C6: with a configuration key missing, no request is sent to Gmail, OpenAI
\* or Drive, and the run ends with a configuration error.
C6_MissingKeyAbortsBeforeNetwork ==
    env # Keys
        => /\ net_calls = {}
           /\ RunEnded => outcome = "config_error"

\* C7: a run that loaded at least one data row accepts no candidate classified
\* Irrelevant, and adds no row of category Irrelevant to the Drive file.
C7_NoIrrelevantOnceData ==
    csv_has_data
        => /\ \A i \in 1..Len(new_entries) : new_entries[i][2] # <<"Irrelevant">>
           /\ \/ drive = file0
              \/ IrrelevantRows(Table(drive)) \subseteq IrrelevantRows(Table(file0))

C7_Witness ==
    /\ RunEnded
    /\ csv_has_data
    /\ drive_writes = 1
    /\ \E i \in 1..Len(labels) : labels[i] = "Irrelevant"

\* C8: a run that loaded no data row accepts every candidate, whatever its
\* category, and the rows it writes hold the entry of every candidate.
C8_BootstrapAcceptsAll ==
    ~csv_has_data
        => /\ new_entries = Entries
           /\ drive_writes > 0
                 => /\ Len(labels) = Len(emails)
                    /\ Range(Entries) \subseteq written

C8_Witness ==
    /\ RunEnded
    /\ ~csv_has_data
    /\ file0.has
    /\ drive_writes = 1
    /\ \E i \in 1..Len(labels) : labels[i] = "Irrelevant"

\* C9: the Drive file is written only in a run that accepted a candidate; a
\* run whose fetch returns nothing ends with success without any request to
\* Drive, and a run that accepts nothing ends with success and the file as it
\* was.
C9_WriteOnlyWhenAccepted ==
    /\ drive_writes > 0 => new_entries # <<>>
    /\ drive_writes = 0 => drive = file0
    /\ (RunEnded /\ "gmail" \in net_calls /\ emails = <<>>)
          => (outcome = "success" /\ "drive" \notin net_calls /\ drive_writes = 0)
    /\ (RunEnded /\ emails # <<>> /\ Len(labels) = Len(emails) /\ new_entries = <<>>)
          => (outcome = "success" /\ drive_writes = 0 /\ drive = file0)

C9_Witness ==
    /\ RunEnded
    /\ outcome = "success"
    /\ emails # <<>>
    /\ Len(labels) = Len(emails)
    /\ new_entries = <<>>
    /\ "drive" \in net_calls

\* C10: the rows loaded from the file a run wrote are the rows the run handed
\* to the writer.
C10_SaveLoadRoundTrip ==
    drive_writes > 0 => LoadRows(drive.text) = written

====
